---- MODULE Spec2Model ----
(***************************************************************************)
(* A model of online_rem.py: the Atari wrapper classes (NoopResetEnv,      *)
(* FireResetEnv, EpisodicLifeEnv, MaxAndSkipEnv, FrameStack) each placed   *)
(* directly over an inner environment whose answers are nondeterministic,  *)
(* the pipeline the script assembles from them, linear_schedule,           *)
(* combine_q_functions, the replay store, and the training loop at the     *)
(* bottom of the script, which steps a pipeline whose outermost layer is   *)
(* FrameStack.  Each component has its own specification (SpecLoop,        *)
(* SpecLife, SpecSkip, SpecNoop, SpecFire, SpecStack, SpecSchedule,        *)
(* SpecPipe, SpecCombine, SpecReplay); the variables of the components a   *)
(* specification does not exercise stay at their construction values.      *)
(***************************************************************************)
EXTENDS Integers, Sequences, FiniteSets, TLC

VARIABLES
    \* ---- training loop (lines 579-672) ----
    args,            \* the parsed command line (args.total_timesteps, ...)
    pc,              \* position of the script inside the loop
    global_step,     \* the loop variable of line 598
    done,            \* the loop's `done` (lines 597, 620)
    env_state,       \* the pipeline as the loop left it: "running" or "done"
    q_params,        \* version of q_network's parameters (number of optimizer steps)
    target_params,   \* version of q_network's parameters target_network holds
    q_tm,            \* q_network.transform_matrix (the identity of the matrix)
    target_tm,       \* target_network.transform_matrix
    tm_count,        \* matrices drawn so far by random_stochastic_matrix
    optimizer,       \* version of the optimizer's state (number of optimizer steps)
    rb_size,         \* transitions handed to rb.add
    rb,              \* the replay store
    obs,             \* the loop's `obs` (lines 596, 609, 628, 633)
    next_obs,        \* the loop's `next_obs` (line 620)
    checkpoint,      \* what torch.save last wrote to save_path
    saveSteps,       \* history: the global_step values at which torch.save ran
    trace,           \* history: what the pipeline last returned, what rb.add last got
    learnSteps,      \* history: the global_step values at which the learning block ran
    syncSteps,       \* history: the global_step values at which line 670 ran
    iter,            \* history: calls made in the current iteration and in total
    misuse,          \* history: the pipeline was stepped while "done"
    \* ---- one wrapper object over an inner environment (lines 13-129) ----
    w_pc,            \* position inside the wrapper method being executed
    self,            \* the wrapper's attributes (self.lives, self._obs_buffer, ...)
    local,           \* the local variables of the method being executed
    inner,           \* the inner environment: reset/done status, ale.lives()
    calls,           \* history: the calls the current method made on self.env
    ret,             \* what the last completed method returned
    hist             \* history: what the claims need from the call's start and before

loopVars == <<args, pc, global_step, done, env_state, q_params, target_params,
              q_tm, target_tm, tm_count, optimizer, rb_size, rb, obs, next_obs,
              checkpoint, saveSteps, trace, learnSteps, syncSteps, iter, misuse>>

wrapVars == <<w_pc, self, local, inner, calls, ret, hist>>

vars == <<loopVars, wrapVars>>

(***************************************************************************)
(* Bounds of the model.                                                    *)
(***************************************************************************)
MaxTimesteps == 5
MaxLearningStart == 2
MaxFrequency == 3
MaxCapacity == 2

\* The end-to-end scenario of the specification's section 8.
Scenario == [total_timesteps |-> 50, learning_start |-> 10, train_frequency |-> 5,
             target_network_frequency |-> 10, save_frequency |-> 20,
             buffer_size |-> 1000]

ArgSpace == [total_timesteps : 1..MaxTimesteps,
             learning_start : 0..MaxLearningStart,
             train_frequency : 1..MaxFrequency,
             target_network_frequency : 1..MaxFrequency,
             save_frequency : 1..MaxFrequency,
             buffer_size : 1..MaxCapacity]

(***************************************************************************)
(* FrameStack (lines 192-221) and the LazyFrames object it returns (lines  *)
(* 235-268), over an inner environment that answers any frame.  A frame is *)
(* the sequence of its channel planes; the inner environment's frames have *)
(* one plane, as WarpFrame and ImageToPyTorch leave them.                   *)
(***************************************************************************)
FrameStackK == 4

NoArray == <<"None">>

FrameOf(o) == <<o>>

\* deque(maxlen=k).append (line 202): a full deque drops its oldest element.
AppendUnbounded(q, x, maxlen) == Append(q, x)

DequeAppend(q, x, maxlen) ==
    IF Len(q) >= maxlen THEN Append(Tail(q), x) ELSE Append(q, x)

\* Lines 210-211: for _ in range(self.k): self.frames.append(ob).
AppendOnce(q, x, maxlen, n) == DequeAppend(q, x, maxlen)

RECURSIVE AppendTimes(_, _, _, _)
AppendTimes(q, x, maxlen, n) ==
    IF n = 0 THEN q ELSE AppendTimes(DequeAppend(q, x, maxlen), x, maxlen, n - 1)

\* np.concatenate(frames, axis=0) (line 247): the planes of the frames, in order.
RECURSIVE Concatenate(_)
Concatenate(fs) ==
    IF fs = <<>> THEN <<>> ELSE Head(fs) \o Concatenate(Tail(fs))

\* Lines 236-243: LazyFrames(list(self.frames)) holds its own list of the frames.
LazyFrames(fs) == [frames |-> fs, out |-> NoArray]

\* Lines 245-249.
Force(lazy) ==
    IF lazy.out = NoArray
    THEN [frames |-> NoArray, out |-> Concatenate(lazy.frames)]
    ELSE lazy

\* Lines 219-221: the assertion, then the lazy object.
GetOb(frames, k) ==
    IF Len(frames) = k
    THEN [op |-> "ok", ob |-> LazyFrames(frames)]
    ELSE [op |-> "raised", ob |-> LazyFrames(<<>>)]

(***************************************************************************)
(* The replay store (ReplayBuffer of stable_baselines3, lines 337 and      *)
(* 586-589): a ring of buffer_size slots.  Its code is not part of the     *)
(* script; it is modelled from section 4.2 of the specification.  A stored *)
(* transition is whatever the caller hands over.                           *)
(***************************************************************************)
ReplayStore(capacity) == [capacity |-> capacity, pos |-> 0, slots |-> <<>>]

ReplaySize(store) == Len(store.slots)

\* add: store until full, then overwrite the oldest slot.
SlotsGrown(store, x) == Append(store.slots, x)

SlotsAfterAdd(store, x) ==
    IF Len(store.slots) < store.capacity
    THEN Append(store.slots, x)
    ELSE [store.slots EXCEPT ![store.pos + 1] = x]

ReplayAdd(store, x) ==
    [store EXCEPT !.slots = SlotsAfterAdd(store, x),
                  !.pos = (store.pos + 1) % store.capacity]

\* sample: indices among the filled slots; no index when the store is empty.
ReplayIndexes(store) == 0..(ReplaySize(store) - 1)

(***************************************************************************)
(* The training loop.                                                      *)
(***************************************************************************)
\* Lines 473-485: the pipeline as the loop sees it.  Its outermost layer is
\* FrameStack(env, 4) (line 313); the layers below it hand up one frame per
\* reset and per step, frame number n being the n-th they produce.
PipelineBuilt ==
    /\ w_pc = "none"
    /\ self = [k |-> FrameStackK, frames |-> <<>>]
    /\ local = <<>>
    /\ inner = [produced |-> 0]
    /\ calls = <<>>
    /\ ret = <<>>
    /\ hist = <<>>

NoTransition == [obs |-> <<>>, next_obs |-> <<>>, done |-> FALSE]

\* What rb.add is handed (line 627): the arrays of obs and next_obs, and done.
Transition(o, n, d) == [obs |-> Force(o).out, next_obs |-> Force(n).out, done |-> d]

\* Lines 579-595: both networks are built with the same transform_matrix,
\* the target network loads the online parameters, the replay store is
\* created empty; the script is about to reset the pipeline (line 596).
LoopInit ==
    /\ args \in ArgSpace \cup {Scenario}
    /\ pc = "reset"
    /\ global_step = 0
    /\ done = FALSE
    /\ env_state = "unreset"
    /\ q_params = 0
    /\ target_params = 0
    /\ q_tm = 0
    /\ target_tm = 0
    /\ tm_count = 1
    /\ optimizer = 0
    /\ rb_size = 0
    /\ rb = ReplayStore(args.buffer_size)
    /\ obs = LazyFrames(<<>>)
    /\ next_obs = LazyFrames(<<>>)
    /\ checkpoint = [saved |-> FALSE, global_step |-> 0, q |-> 0, target |-> 0,
                     optimizer |-> 0]
    /\ saveSteps = {}
    /\ trace = [reset_ob |-> LazyFrames(<<>>), step_ob |-> LazyFrames(<<>>),
                added |-> NoTransition, follows_done |-> FALSE]
    /\ learnSteps = {}
    /\ syncSteps = {}
    /\ iter = [steps |-> 0, adds |-> 0, resets |-> 0, regens |-> 0,
               total_steps |-> 0, total_resets |-> 0, last_done |-> FALSE]
    /\ misuse = FALSE
    /\ PipelineBuilt

\* FrameStack.reset and FrameStack.step as the loop calls them: the window
\* after the call and what _get_ob answers.
PipelineReset ==
    LET frames == AppendTimes(self.frames, FrameOf(inner.produced), self.k, self.k)
    IN [frames |-> frames, got |-> GetOb(frames, self.k)]

PipelineStep ==
    LET frames == DequeAppend(self.frames, FrameOf(inner.produced), self.k)
    IN [frames |-> frames, got |-> GetOb(frames, self.k)]

\* Lines 596-597: obs = env.reset(); done = False.
LoopReset ==
    /\ pc = "reset"
    /\ LET r == PipelineReset
       IN /\ self' = [self EXCEPT !.frames = r.frames]
          /\ obs' = r.got.ob
          /\ trace' = [trace EXCEPT !.reset_ob = r.got.ob]
          /\ pc' = IF r.got.op = "ok" THEN "head" ELSE "crash"
    /\ inner' = [produced |-> inner.produced + 1]
    /\ env_state' = "running"
    /\ done' = FALSE
    /\ iter' = [iter EXCEPT !.total_resets = @ + 1]
    /\ UNCHANGED <<w_pc, local, calls, ret, hist>>
    /\ UNCHANGED <<args, global_step, q_params, target_params, q_tm, target_tm,
                   tm_count, optimizer, rb_size, rb, next_obs, checkpoint,
                   saveSteps, learnSteps, syncSteps, misuse>>

\* Line 598: for global_step in range(args.total_timesteps).
\* global_step here is the index of the iteration about to run; when the
\* range is exhausted the script falls through to env.close() (line 672).
LoopHead ==
    /\ pc = "head"
    /\ pc' = IF global_step < args.total_timesteps THEN "save" ELSE "exit"
    /\ iter' = [iter EXCEPT !.steps = 0, !.adds = 0, !.resets = 0, !.regens = 0]
    /\ UNCHANGED wrapVars
    /\ UNCHANGED <<args, global_step, done, env_state, q_params, target_params,
                   q_tm, target_tm, tm_count, optimizer, rb_size, rb, obs,
                   next_obs, checkpoint, saveSteps, trace, learnSteps,
                   syncSteps, misuse>>

\* Lines 601-607.
SaveSkipsStart(g) == g > 0 /\ g % args.save_frequency = 0

SaveDue(g) == g % args.save_frequency = 0

Save ==
    /\ pc = "save"
    /\ pc' = "act"
    /\ IF SaveDue(global_step)
       THEN /\ checkpoint' = [saved |-> TRUE, global_step |-> global_step,
                              q |-> q_params, target |-> target_params,
                              optimizer |-> optimizer]
            /\ saveSteps' = saveSteps \cup {global_step}
       ELSE UNCHANGED <<checkpoint, saveSteps>>
    /\ UNCHANGED wrapVars
    /\ UNCHANGED <<args, global_step, done, env_state, q_params, target_params,
                   q_tm, target_tm, tm_count, optimizer, rb_size, rb, obs,
                   next_obs, trace, learnSteps, syncSteps, iter, misuse>>

\* Lines 609-617: obs = np.array(obs); q_network is evaluated on it and an
\* action is chosen.
Act ==
    /\ pc = "act"
    /\ obs' = Force(obs)
    /\ pc' = "step"
    /\ UNCHANGED wrapVars
    /\ UNCHANGED <<args, global_step, done, env_state, q_params, target_params,
                   q_tm, target_tm, tm_count, optimizer, rb_size, rb, next_obs,
                   checkpoint, saveSteps, trace, learnSteps, syncSteps, iter,
                   misuse>>

\* Line 620: next_obs, reward, done, info = env.step(action).
EnvStep ==
    /\ pc = "step"
    /\ \E d \in BOOLEAN :
        /\ done' = d
        /\ env_state' = IF d THEN "done" ELSE "running"
    /\ LET r == PipelineStep
       IN /\ self' = [self EXCEPT !.frames = r.frames]
          /\ next_obs' = r.got.ob
          /\ trace' = [trace EXCEPT !.step_ob = r.got.ob]
          /\ pc' = IF r.got.op = "ok" THEN "add" ELSE "crash"
    /\ inner' = [produced |-> inner.produced + 1]
    /\ misuse' = (misuse \/ env_state # "running")
    /\ iter' = [iter EXCEPT !.steps = @ + 1, !.total_steps = @ + 1]
    /\ UNCHANGED <<w_pc, local, calls, ret, hist>>
    /\ UNCHANGED <<args, global_step, q_params, target_params, q_tm, target_tm,
                   tm_count, optimizer, rb_size, rb, obs, checkpoint, saveSteps,
                   learnSteps, syncSteps>>

\* Lines 627-628: rb.add(obs, next_obs, action, reward, done, info); obs = next_obs.
\* The store's slot records which insertion it holds.
RbAdd ==
    /\ pc = "add"
    /\ rb_size' = rb_size + 1
    /\ rb' = ReplayAdd(rb, global_step)
    /\ trace' = [trace EXCEPT !.added = Transition(obs, next_obs, done),
                              !.follows_done = iter.last_done]
    /\ obs' = next_obs
    /\ iter' = [iter EXCEPT !.adds = @ + 1]
    /\ pc' = "episode"
    /\ UNCHANGED wrapVars
    /\ UNCHANGED <<args, global_step, done, env_state, q_params, target_params,
                   q_tm, target_tm, tm_count, optimizer, next_obs, checkpoint,
                   saveSteps, learnSteps, syncSteps, misuse>>

\* Lines 629-633: if done: obs = env.reset().
ResetForgotten(d, s) == s

ResetAfter(d, s) == IF d THEN "running" ELSE s

ObsKeptOverReset(d, kept, fresh) == kept

ObsAfterEpisode(d, kept, fresh) == IF d THEN fresh ELSE kept

EpisodeEnd ==
    /\ pc = "episode"
    /\ env_state' = ResetAfter(done, env_state)
    /\ iter' = [iter EXCEPT !.resets = IF done THEN @ + 1 ELSE @,
                            !.total_resets = IF done THEN @ + 1 ELSE @,
                            !.last_done = done]
    /\ LET r == PipelineReset
       IN /\ self' = IF done THEN [self EXCEPT !.frames = r.frames] ELSE self
          /\ obs' = ObsAfterEpisode(done, obs, r.got.ob)
          /\ trace' = IF done THEN [trace EXCEPT !.reset_ob = r.got.ob] ELSE trace
          /\ pc' = IF done /\ r.got.op # "ok" THEN "crash" ELSE "gate"
    /\ inner' = IF done THEN [produced |-> inner.produced + 1] ELSE inner
    /\ UNCHANGED <<w_pc, local, calls, ret, hist>>
    /\ UNCHANGED <<args, global_step, done, q_params, target_params, q_tm,
                   target_tm, tm_count, optimizer, rb_size, rb, next_obs,
                   checkpoint, saveSteps, learnSteps, syncSteps, misuse>>

\* Line 636: the condition of the learning block.
LearnGateInclusive(g) == g >= args.learning_start /\ g % args.train_frequency = 0

LearnGate(g) == g > args.learning_start /\ g % args.train_frequency = 0

Gate ==
    /\ pc = "gate"
    /\ pc' = IF LearnGate(global_step) THEN "regen" ELSE "next"
    /\ UNCHANGED wrapVars
    /\ UNCHANGED <<args, global_step, done, env_state, q_params, target_params,
                   q_tm, target_tm, tm_count, optimizer, rb_size, rb, obs,
                   next_obs, checkpoint, saveSteps, trace, learnSteps,
                   syncSteps, iter, misuse>>

\* Lines 638-640: one fresh matrix, assigned to both networks.
TargetMatrixKept(fresh, old) == old

TargetMatrixAfter(fresh, old) == fresh

Regen ==
    /\ pc = "regen"
    /\ tm_count' = tm_count + 1
    /\ q_tm' = tm_count
    /\ target_tm' = TargetMatrixAfter(tm_count, target_tm)
    /\ learnSteps' = learnSteps \cup {global_step}
    /\ iter' = [iter EXCEPT !.regens = @ + 1]
    /\ pc' = "eval"
    /\ UNCHANGED wrapVars
    /\ UNCHANGED <<args, global_step, done, env_state, q_params, target_params,
                   optimizer, rb_size, rb, obs, next_obs, checkpoint, saveSteps,
                   trace, syncSteps, misuse>>

\* Lines 642-666: sample a batch (sampling an empty store raises), evaluate
\* target_network and q_network, one optimizer step on q_network.
Learn ==
    /\ pc = "eval"
    /\ IF ReplayIndexes(rb) = {}
       THEN /\ pc' = "crash"
            /\ UNCHANGED <<q_params, optimizer>>
       ELSE /\ q_params' = q_params + 1
            /\ optimizer' = optimizer + 1
            /\ pc' = "sync"
    /\ UNCHANGED wrapVars
    /\ UNCHANGED <<args, global_step, done, env_state, target_params, q_tm,
                   target_tm, tm_count, rb_size, rb, obs, next_obs, checkpoint,
                   saveSteps, trace, learnSteps, syncSteps, iter, misuse>>

\* Lines 669-670, inside the learning block.
SyncDue(g) == g % args.target_network_frequency = 0

TargetUpdate ==
    /\ pc = "sync"
    /\ IF SyncDue(global_step)
       THEN /\ target_params' = q_params
            /\ syncSteps' = syncSteps \cup {global_step}
       ELSE UNCHANGED <<target_params, syncSteps>>
    /\ pc' = "next"
    /\ UNCHANGED wrapVars
    /\ UNCHANGED <<args, global_step, done, env_state, q_params, q_tm,
                   target_tm, tm_count, optimizer, rb_size, rb, obs, next_obs,
                   checkpoint, saveSteps, trace, learnSteps, iter, misuse>>

\* The loop variable advances to the next value of the range.
NextIter ==
    /\ pc = "next"
    /\ global_step' = global_step + 1
    /\ pc' = "head"
    /\ UNCHANGED wrapVars
    /\ UNCHANGED <<args, done, env_state, q_params, target_params, q_tm,
                   target_tm, tm_count, optimizer, rb_size, rb, obs, next_obs,
                   checkpoint, saveSteps, trace, learnSteps, syncSteps, iter,
                   misuse>>

NextLoop ==
    \/ LoopReset
    \/ LoopHead
    \/ Save
    \/ Act
    \/ EnvStep
    \/ RbAdd
    \/ EpisodeEnd
    \/ Gate
    \/ Regen
    \/ Learn
    \/ TargetUpdate
    \/ NextIter

SpecLoop == LoopInit /\ [][NextLoop]_vars

(***************************************************************************)
(* The wrappers.  Outside SpecLoop the script's loop is not running.       *)
(***************************************************************************)
LoopIdle ==
    /\ args = Scenario
    /\ pc = "off"
    /\ global_step = 0
    /\ done = FALSE
    /\ env_state = "running"
    /\ q_params = 0
    /\ target_params = 0
    /\ q_tm = 0
    /\ target_tm = 0
    /\ tm_count = 1
    /\ optimizer = 0
    /\ rb_size = 0
    /\ rb = ReplayStore(args.buffer_size)
    /\ obs = LazyFrames(<<>>)
    /\ next_obs = LazyFrames(<<>>)
    /\ checkpoint = [saved |-> FALSE, global_step |-> 0, q |-> 0, target |-> 0,
                     optimizer |-> 0]
    /\ saveSteps = {}
    /\ trace = [reset_ob |-> LazyFrames(<<>>), step_ob |-> LazyFrames(<<>>),
                added |-> NoTransition, follows_done |-> FALSE]
    /\ learnSteps = {}
    /\ syncSteps = {}
    /\ iter = [steps |-> 0, adds |-> 0, resets |-> 0, regens |-> 0,
               total_steps |-> 0, total_resets |-> 0, last_done |-> FALSE]
    /\ misuse = FALSE

MaxAction == 2
MaxLives == 3

Actions == 0..MaxAction

\* One call on self.env as the history records it.
InnerCall(op, a, r) ==
    [op |-> op, action |-> a, obs |-> r.obs, reward |-> r.reward,
     lives |-> r.lives, done |-> r.done]

Flag(b) == IF b THEN "true" ELSE "false"

\* An environment that has reported done stays terminated until it is reset.
StatusAfterStep(status, d) == IF d \/ status = "done" THEN "done" ELSE "running"

(***************************************************************************)
(* EpisodicLifeEnv (lines 64-98) over an emulator whose life counter and   *)
(* done flag are either free or follow the scripted life sequence.         *)
(***************************************************************************)
LifeScript == <<3, 3, 2, 2, 1, 0>>

ScriptStartLives == LifeScript[1]

\* What one tick of the emulator may answer.  A scripted emulator answers
\* its next entry, with done at the last one; past its end (it was stepped
\* although terminated) and in the free mode anything may come back.
LifeResponses ==
    IF inner.mode = "script" /\ inner.pos < Len(LifeScript)
    THEN {[obs |-> 0, reward |-> 0, lives |-> LifeScript[inner.pos + 1],
           done |-> (inner.pos + 1 = Len(LifeScript))]}
    ELSE [obs : {0}, reward : {0}, lives : 0..MaxLives, done : BOOLEAN]

ScriptPosAfter(in) ==
    IF in.mode = "script" /\ in.pos < Len(LifeScript) THEN in.pos + 1 ELSE in.pos

LifeResetLives ==
    IF inner.mode = "script" THEN {ScriptStartLives} ELSE 0..MaxLives

\* Lines 65-71.
\* hist.caller_ok: the caller has so far reset after every step that
\* returned done=True.  hist.prior_status: the emulator's state when the
\* latest call came in.
LifeInit ==
    /\ w_pc = "idle"
    /\ self = [lives |-> 0, was_real_done |-> TRUE]
    /\ local = <<>>
    /\ inner \in [status : {"unreset"}, lives : {0}, mode : {"free", "script"},
                  pos : {0}, last_done : {"none"}]
    /\ calls = <<>>
    /\ ret = [op |-> "none", done |-> FALSE]
    /\ hist = [prev_lives |-> 0, prior_done |-> "none", tick |-> 0,
               prior_status |-> "unreset", caller_ok |-> TRUE]
    /\ LoopIdle

\* Line 79.
LifeLostOrZero(lives, remembered) == lives < remembered

LifeLost(lives, remembered) == lives < remembered /\ lives > 0

\* Lines 73-85.  The caller has reset the environment at least once.
LifeStep ==
    /\ w_pc = "idle"
    /\ inner.status # "unreset"
    /\ \E a \in Actions, r \in LifeResponses :
        /\ inner' = [inner EXCEPT !.status = StatusAfterStep(@, r.done),
                                  !.lives = r.lives,
                                  !.pos = ScriptPosAfter(inner),
                                  !.last_done = Flag(r.done)]
        /\ calls' = <<InnerCall("step", a, r)>>
        /\ self' = [lives |-> r.lives, was_real_done |-> r.done]
        /\ ret' = [op |-> "step", done |-> (r.done \/ LifeLost(r.lives, self.lives))]
        /\ hist' = [prev_lives |-> inner.lives, prior_done |-> inner.last_done,
                    tick |-> IF inner.mode = "script" /\ inner.pos < Len(LifeScript)
                             THEN inner.pos + 1 ELSE 0,
                    prior_status |-> inner.status,
                    caller_ok |-> hist.caller_ok /\ ~(ret.op = "step" /\ ret.done)]
    /\ UNCHANGED <<w_pc, local>>
    /\ UNCHANGED loopVars

\* Lines 87-98.  The done flag of the no-op step of line 96 is discarded.
LifeReset ==
    /\ w_pc = "idle"
    /\ IF self.was_real_done
       THEN \E l \in LifeResetLives :
            /\ inner' = [inner EXCEPT !.status = "running", !.lives = l, !.pos = 0]
            /\ calls' = <<InnerCall("reset", 0,
                                    [obs |-> 0, reward |-> 0, lives |-> l, done |-> FALSE])>>
            /\ self' = [self EXCEPT !.lives = l]
       ELSE \E r \in LifeResponses :
            /\ inner' = [inner EXCEPT !.status = StatusAfterStep(@, r.done),
                                      !.lives = r.lives,
                                      !.pos = ScriptPosAfter(inner),
                                      !.last_done = Flag(r.done)]
            /\ calls' = <<InnerCall("step", 0, r)>>
            /\ self' = [self EXCEPT !.lives = r.lives]
    /\ ret' = [op |-> "reset", done |-> FALSE]
    /\ hist' = [prev_lives |-> inner.lives, prior_done |-> inner.last_done, tick |-> 0,
                prior_status |-> inner.status, caller_ok |-> hist.caller_ok]
    /\ UNCHANGED <<w_pc, local>>
    /\ UNCHANGED loopVars

NextLife ==
    \/ LifeStep
    \/ LifeReset

SpecLife == LifeInit /\ [][NextLife]_vars

(***************************************************************************)
(* MaxAndSkipEnv (lines 101-129) over an inner environment that answers    *)
(* each tick with any frame, reward and done flag.  A frame is two pixels. *)
(***************************************************************************)
Skip == 4

\* uint8 samples, two levels of them.
Pixels == {0, 1}

Frames == Pixels \X Pixels

ZeroFrame == <<0, 0>>

Rewards == {-1, 0, 1}

NoRewards == [x \in Rewards |-> 0]

\* The sum of the per-tick rewards the history counted.
RewardSum(counts) == counts[1] - counts[-1]

\* Line 124: self._obs_buffer.max(axis=0).
FirstSlotOnly(buffer) == buffer[1]

MaxFrame(buffer) ==
    [k \in 1..2 |-> IF buffer[1][k] >= buffer[2][k] THEN buffer[1][k] ELSE buffer[2][k]]

SkipNoHistory(before) ==
    [before |-> before, after |-> before, n |-> 0, acts |-> {},
     rewards |-> NoRewards, last2 |-> <<ZeroFrame, ZeroFrame>>,
     dones |-> 0, last_done |-> FALSE, origin |-> <<"zeros", "zeros">>]

\* Where the frame a slot of self._obs_buffer holds came from: the zeros of
\* line 106, a tick since the latest reset ("new"), or a tick before it
\* ("old").  Line 129 leaves the buffer alone, so a reset only ages it.
Aged(origin) == [slot \in 1..2 |-> IF origin[slot] = "new" THEN "old" ELSE origin[slot]]

\* No call is running; nothing has been returned.
SkipNoLocals == [i |-> 0, total_reward |-> 0, done |-> FALSE, action |-> 0]

SkipNoReturn ==
    [op |-> "none", action |-> 0, obs |-> ZeroFrame, reward |-> 0, done |-> FALSE]

\* Lines 102-107.
SkipInit ==
    /\ w_pc = "idle"
    /\ self = [obs_buffer |-> <<ZeroFrame, ZeroFrame>>]
    /\ local = SkipNoLocals
    /\ inner = [status |-> "unreset"]
    /\ calls = <<>>
    /\ ret = SkipNoReturn
    /\ hist = SkipNoHistory(<<ZeroFrame, ZeroFrame>>)
    /\ LoopIdle

\* Lines 109-113: step is entered, the locals are initialised.
SkipBegin ==
    /\ w_pc = "idle"
    /\ inner.status # "unreset"
    /\ \E a \in Actions :
        local' = [i |-> 0, total_reward |-> 0, done |-> FALSE, action |-> a]
    /\ ret' = SkipNoReturn
    /\ hist' = [SkipNoHistory(hist.after) EXCEPT !.origin = hist.origin]
    /\ w_pc' = "tick"
    /\ UNCHANGED <<self, inner, calls>>
    /\ UNCHANGED loopVars

\* Lines 115-118: which tick fills which slot of self._obs_buffer.
StoredEarly(i, slot) == (slot = 1 /\ i = Skip - 3) \/ (slot = 2 /\ i = Skip - 1)

StoredFirstSlot(i, slot) == slot = 1 /\ i = Skip - 2

Stored(i, slot) == (slot = 1 /\ i = Skip - 2) \/ (slot = 2 /\ i = Skip - 1)

\* Lines 113, 120-121: the loop goes on to tick i + 1.
GoesOnAfterDone(i, d) == i + 1 < Skip

GoesOn(i, d) == i + 1 < Skip /\ ~d

\* Lines 114-121: one pass of the loop body.
SkipTick ==
    /\ w_pc = "tick"
    /\ \E f \in Frames, r \in Rewards, d \in BOOLEAN :
        /\ inner' = [inner EXCEPT !.status = StatusAfterStep(@, d)]
        /\ self' = [self EXCEPT !.obs_buffer =
                      [slot \in 1..2 |-> IF Stored(local.i, slot) THEN f ELSE @[slot]]]
        /\ local' = [local EXCEPT !.i = IF GoesOn(@, d) THEN @ + 1 ELSE @,
                                  !.total_reward = @ + r,
                                  !.done = d]
        /\ hist' = [hist EXCEPT !.n = @ + 1,
                                !.acts = @ \cup {local.action},
                                !.rewards = [@ EXCEPT ![r] = @ + 1],
                                !.last2 = <<@[2], f>>,
                                !.dones = IF d THEN @ + 1 ELSE @,
                                !.last_done = d,
                                !.origin = [slot \in 1..2 |->
                                    IF Stored(local.i, slot) THEN "new" ELSE @[slot]]]
        /\ w_pc' = IF GoesOn(local.i, d) THEN "tick" ELSE "pool"
    /\ UNCHANGED <<calls, ret>>
    /\ UNCHANGED loopVars

\* The frames the two slots hold by the history of inner calls: the raw frame
\* of tick Skip-2 (Skip-1) of this call when that tick ran, else the frame an
\* earlier call left.
SlotFrames(h) ==
    << IF h.n = Skip THEN h.last2[1]
       ELSE IF h.n = Skip - 1 THEN h.last2[2]
       ELSE h.before[1],
       IF h.n = Skip THEN h.last2[2] ELSE h.before[2] >>

\* Lines 124-126.
SkipReturn ==
    /\ w_pc = "pool"
    /\ ret' = [op |-> "step", action |-> local.action,
               obs |-> MaxFrame(self.obs_buffer),
               reward |-> local.total_reward, done |-> local.done]
    /\ local' = SkipNoLocals
    /\ hist' = [hist EXCEPT !.after = SlotFrames(hist)]
    /\ w_pc' = "idle"
    /\ UNCHANGED <<self, inner, calls>>
    /\ UNCHANGED loopVars

\* Lines 128-129: reset hands on the inner reset; the buffer is not touched.
SkipReset ==
    /\ w_pc = "idle"
    /\ \E f \in Frames :
        ret' = [op |-> "reset", action |-> 0, obs |-> f, reward |-> 0, done |-> FALSE]
    /\ inner' = [inner EXCEPT !.status = "running"]
    /\ hist' = [SkipNoHistory(hist.after) EXCEPT !.origin = Aged(hist.origin)]
    /\ UNCHANGED <<w_pc, self, local, calls>>
    /\ UNCHANGED loopVars

NextSkip ==
    \/ SkipBegin
    \/ SkipTick
    \/ SkipReturn
    \/ SkipReset

SpecSkip == SkipInit /\ [][NextSkip]_vars

(***************************************************************************)
(* NoopResetEnv (lines 13-40) and FireResetEnv (lines 43-61), each over an *)
(* inner environment that answers a step with any observation and done     *)
(* flag and a reset with any observation.  inner.obs is the observation    *)
(* the inner environment produced last.                                    *)
(***************************************************************************)
MaxNoop == 3
MaxObs == 2

ObsIds == 0..MaxObs

NoObs == -1

Call(op, a, d) == [op |-> op, action |-> a, done |-> d]

NoopNoLocals == [noops |-> 0, i |-> 0, obs |-> NoObs, done |-> FALSE]

ResetReturn(o) == [op |-> "reset", obs |-> o, done |-> FALSE]

\* Lines 14-22.  The assertion of line 22 fails for an environment whose
\* action 0 is not NOOP: no wrapper object comes to exist.
NoopInit ==
    /\ \E m \in {"NOOP", "FIRE"}, nm \in 1..MaxNoop :
        /\ self = [noop_max |-> nm, override_num_noops |-> [set |-> FALSE, n |-> 0],
                   noop_action |-> 0, action0 |-> m]
        /\ w_pc = IF m = "NOOP" THEN "idle" ELSE "failed"
    /\ local = NoopNoLocals
    /\ inner = [status |-> "unreset", obs |-> NoObs]
    /\ calls = <<>>
    /\ ret = [op |-> "none", obs |-> NoObs, done |-> FALSE]
    /\ hist = [drawn |-> FALSE, override |-> 0]
    /\ LoopIdle

\* The caller assigns the public attribute override_num_noops (line 20).
NoopSetOverride ==
    /\ w_pc = "idle"
    /\ \E o \in [set : {TRUE}, n : 0..MaxNoop] \cup {[set |-> FALSE, n |-> 0]} :
        /\ o # self.override_num_noops
        /\ self' = [self EXCEPT !.override_num_noops = o]
    /\ UNCHANGED <<w_pc, local, inner, calls, ret, hist>>
    /\ UNCHANGED loopVars

\* Lines 27-30: the number of no-ops.
NoopCounts ==
    IF self.override_num_noops.set
    THEN {self.override_num_noops.n}
    ELSE 1..self.noop_max

\* Lines 26-32.  The assertion of line 31 raises after the inner reset.
NoopResetBegin ==
    /\ w_pc = "idle"
    /\ \E o \in ObsIds, n \in NoopCounts :
        /\ inner' = [status |-> "running", obs |-> o]
        /\ calls' = <<Call("reset", 0, FALSE)>>
        /\ hist' = [drawn |-> ~self.override_num_noops.set,
                    override |-> self.override_num_noops.n]
        /\ IF n > 0
           THEN /\ local' = [noops |-> n, i |-> 0, obs |-> NoObs, done |-> FALSE]
                /\ w_pc' = "noop"
                /\ ret' = [op |-> "none", obs |-> NoObs, done |-> FALSE]
           ELSE /\ local' = NoopNoLocals
                /\ w_pc' = "idle"
                /\ ret' = [op |-> "raised", obs |-> NoObs, done |-> FALSE]
    /\ UNCHANGED self
    /\ UNCHANGED loopVars

\* Line 36: obs = self.env.reset(**kwargs).
ObsKept(stepped, fresh) == stepped

ObsAfterReset(stepped, fresh) == fresh

\* Lines 33-36: one pass of the loop.
NoopTick ==
    /\ w_pc = "noop"
    /\ \E o \in ObsIds, d \in BOOLEAN, o2 \in ObsIds :
        /\ d \/ o2 = o
        /\ inner' = IF d THEN [status |-> "running", obs |-> o2]
                         ELSE [status |-> StatusAfterStep(inner.status, d), obs |-> o]
        /\ calls' = IF d
                    THEN calls \o <<Call("step", self.noop_action, d), Call("reset", 0, FALSE)>>
                    ELSE Append(calls, Call("step", self.noop_action, d))
        /\ local' = [local EXCEPT !.i = @ + 1,
                                  !.obs = IF d THEN ObsAfterReset(o, o2) ELSE o,
                                  !.done = d]
    /\ w_pc' = IF local.i + 1 < local.noops THEN "noop" ELSE "ret"
    /\ UNCHANGED <<self, ret, hist>>
    /\ UNCHANGED loopVars

\* Line 37.
NoopReturn ==
    /\ w_pc = "ret"
    /\ ret' = ResetReturn(local.obs)
    /\ w_pc' = "idle"
    /\ UNCHANGED <<self, local, inner, calls, hist>>
    /\ UNCHANGED loopVars

\* Lines 39-40 (and 60-61): step hands on the inner step.
PassStep ==
    /\ w_pc = "idle"
    /\ inner.status # "unreset"
    /\ \E a \in Actions, o \in ObsIds, d \in BOOLEAN :
        /\ inner' = [status |-> StatusAfterStep(inner.status, d), obs |-> o]
        /\ calls' = <<Call("step", a, d)>>
        /\ ret' = [op |-> "step", obs |-> o, done |-> d]
    /\ UNCHANGED <<w_pc, self, local, hist>>
    /\ UNCHANGED loopVars

NextNoop ==
    \/ NoopSetOverride
    \/ NoopResetBegin
    \/ NoopTick
    \/ NoopReturn
    \/ PassStep

SpecNoop == NoopInit /\ [][NextNoop]_vars

\* The action meanings of the environments FireResetEnv is built over.
MeaningLists == {<<"NOOP", "FIRE", "RIGHT">>, <<"NOOP", "FIRE">>, <<"NOOP", "UP", "DOWN">>}

\* Lines 44-48.
FireInit ==
    /\ \E m \in MeaningLists :
        /\ self = [meanings |-> m]
        /\ w_pc = IF m[2] = "FIRE" /\ Len(m) >= 3 THEN "idle" ELSE "failed"
    /\ local = [obs |-> NoObs, done |-> FALSE]
    /\ inner = [status |-> "unreset", obs |-> NoObs]
    /\ calls = <<>>
    /\ ret = [op |-> "none", obs |-> NoObs, done |-> FALSE]
    /\ hist = <<>>
    /\ LoopIdle

\* Line 51.
FireResetBegin ==
    /\ w_pc = "idle"
    /\ \E o \in ObsIds : inner' = [status |-> "running", obs |-> o]
    /\ calls' = <<Call("reset", 0, FALSE)>>
    /\ local' = [obs |-> NoObs, done |-> FALSE]
    /\ ret' = [op |-> "none", obs |-> NoObs, done |-> FALSE]
    /\ w_pc' = "fire1"
    /\ UNCHANGED <<self, hist>>
    /\ UNCHANGED loopVars

\* Lines 53-54 and 56-57: if done: self.env.reset(**kwargs).
NoSecondReset(at, d) == d /\ at = "fire1"

ResetsAgain(at, d) == d

\* Lines 52 and 55: the action of each of the two steps.
FireAction(at) == IF at = "fire1" THEN 1 ELSE 2

\* Lines 52-54 (at fire1) and 55-57 (at fire2): a step whose observation is
\* kept in obs, and a reset, whose observation is dropped, when it was done.
FireTick ==
    /\ w_pc \in {"fire1", "fire2"}
    /\ \E o \in ObsIds, d \in BOOLEAN, o2 \in ObsIds :
        /\ d \/ o2 = o
        /\ inner' = IF ResetsAgain(w_pc, d)
                    THEN [status |-> "running", obs |-> o2]
                    ELSE [status |-> StatusAfterStep(inner.status, d), obs |-> o]
        /\ calls' = IF ResetsAgain(w_pc, d)
                    THEN calls \o <<Call("step", FireAction(w_pc), d), Call("reset", 0, FALSE)>>
                    ELSE Append(calls, Call("step", FireAction(w_pc), d))
        /\ local' = [obs |-> o, done |-> d]
    /\ w_pc' = IF w_pc = "fire1" THEN "fire2" ELSE "ret"
    /\ UNCHANGED <<self, ret, hist>>
    /\ UNCHANGED loopVars

\* Line 58.
FireReturn ==
    /\ w_pc = "ret"
    /\ ret' = ResetReturn(local.obs)
    /\ w_pc' = "idle"
    /\ UNCHANGED <<self, local, inner, calls, hist>>
    /\ UNCHANGED loopVars

NextFire ==
    \/ FireResetBegin
    \/ FireTick
    \/ FireReturn
    \/ PassStep

SpecFire == FireInit /\ [][NextFire]_vars

(***************************************************************************)
(* FrameStack on its own, over an inner environment that answers any       *)
(* frame.                                                                  *)
(***************************************************************************)
MaxStackLog == 6

\* Lines 193-206.
StackInit ==
    /\ w_pc = "idle"
    /\ self = [k |-> FrameStackK, frames |-> <<>>]
    /\ local = <<>>
    /\ inner = [status |-> "unreset"]
    /\ calls = <<>>
    /\ ret = [op |-> "none", ob |-> LazyFrames(<<>>)]
    /\ hist = [reset_seen |-> FALSE, log |-> <<>>, n |-> 0]
    /\ LoopIdle

\* Lines 208-212.
StackReset ==
    /\ w_pc = "idle"
    /\ hist.n < MaxStackLog
    /\ \E o \in ObsIds :
        LET frames == AppendTimes(self.frames, FrameOf(o), self.k, self.k)
            got == GetOb(frames, self.k)
        IN /\ self' = [self EXCEPT !.frames = frames]
           /\ ret' = [op |-> IF got.op = "ok" THEN "reset" ELSE "raised", ob |-> got.ob]
           /\ hist' = [reset_seen |-> TRUE, log |-> <<FrameOf(o)>>, n |-> hist.n + 1]
    /\ inner' = [status |-> "running"]
    /\ UNCHANGED <<w_pc, local, calls>>
    /\ UNCHANGED loopVars

\* Lines 214-217.  The frame is appended before the assertion is evaluated.
StackStep ==
    /\ w_pc = "idle"
    /\ hist.n < MaxStackLog
    /\ \E o \in ObsIds, d \in BOOLEAN :
        LET frames == DequeAppend(self.frames, FrameOf(o), self.k)
            got == GetOb(frames, self.k)
        IN /\ self' = [self EXCEPT !.frames = frames]
           /\ ret' = [op |-> IF got.op = "ok" THEN "step" ELSE "raised", ob |-> got.ob]
           /\ hist' = [hist EXCEPT !.log = IF hist.reset_seen
                                           THEN Append(@, FrameOf(o)) ELSE @,
                                   !.n = @ + 1]
           /\ inner' = [status |-> IF inner.status = "unreset" THEN "unreset"
                                   ELSE StatusAfterStep(inner.status, d)]
    /\ UNCHANGED <<w_pc, local, calls>>
    /\ UNCHANGED loopVars

\* The caller converts the returned observation to an array
\* (np.array(obs), line 609, reaches __array__ and _force).
StackForce ==
    /\ w_pc = "idle"
    /\ ret.op \in {"reset", "step"}
    /\ ret.ob.out = NoArray
    /\ ret' = [ret EXCEPT !.ob = Force(@)]
    /\ UNCHANGED <<w_pc, self, local, inner, calls, hist>>
    /\ UNCHANGED loopVars

NextStack ==
    \/ StackReset
    \/ StackStep
    \/ StackForce

SpecStack == StackInit /\ [][NextStack]_vars

(***************************************************************************)
(* linear_schedule (lines 574-576) as the loop calls it (line 613).  The   *)
(* arguments are Python floats: binary floating point, every operation     *)
(* rounded to the nearest representable value, ties to even.  The model    *)
(* keeps that arithmetic with a significand of MantissaBits bits (binary64 *)
(* has 53).  A number is a reduced fraction <<numerator, denominator>>.    *)
(***************************************************************************)
MantissaBits == 8

MaxDuration == 5

MaxScheduleSteps == 200

RECURSIVE Gcd(_, _)
Gcd(a, b) == IF b = 0 THEN a ELSE Gcd(b, a % b)

Abs(x) == IF x < 0 THEN -x ELSE x

Rat(n, d) == LET g == Gcd(Abs(n), d) IN <<n \div g, d \div g>>

Lcm(a, b) == a * (b \div Gcd(a, b))

RatAdd(x, y) ==
    LET l == Lcm(x[2], y[2])
    IN Rat(x[1] * (l \div x[2]) + y[1] * (l \div y[2]), l)

RatNeg(x) == <<-x[1], x[2]>>

RatSub(x, y) == RatAdd(x, RatNeg(y))

RatMul(x, y) ==
    LET a == Rat(x[1], y[2])
        b == Rat(y[1], x[2])
    IN <<a[1] * b[1], a[2] * b[2]>>

\* x / y for y > 0.
RatDiv(x, y) == RatMul(x, <<y[2], y[1]>>)

RatLe(x, y) ==
    LET l == Lcm(x[2], y[2])
    IN x[1] * (l \div x[2]) <= y[1] * (l \div y[2])

RatAbs(x) == <<Abs(x[1]), x[2]>>

RECURSIVE Pow2(_)
Pow2(k) == IF k = 0 THEN 1 ELSE 2 * Pow2(k - 1)

RECURSIVE ShiftUp(_, _, _)
ShiftUp(a, d, k) == IF a >= d THEN k ELSE ShiftUp(2 * a, d, k + 1)

RECURSIVE ShiftDown(_, _, _)
ShiftDown(a, d, e) == IF 2 * d > a THEN e ELSE ShiftDown(a, 2 * d, e + 1)

\* The exponent e with 2^e <= a/d < 2^(e+1).
Exponent(a, d) == IF a >= d THEN ShiftDown(a, d, 0) ELSE -ShiftUp(a, d, 0)

\* The representable number nearest to the fraction x, ties to even.
Round(x) ==
    IF x[1] = 0 THEN <<0, 1>>
    ELSE LET a == Abs(x[1])
             sh == MantissaBits - 1 - Exponent(a, x[2])
             N == IF sh >= 0 THEN a * Pow2(sh) ELSE a
             D == IF sh >= 0 THEN x[2] ELSE x[2] * Pow2(-sh)
             m == N \div D
             r == N % D
             up == 2 * r > D \/ (2 * r = D /\ m % 2 = 1)
             m2 == IF up THEN m + 1 ELSE m
             s == IF x[1] < 0 THEN -1 ELSE 1
         IN IF sh >= 0 THEN Rat(s * m2, Pow2(sh)) ELSE <<s * m2 * Pow2(-sh), 1>>

FAdd(x, y) == Round(RatAdd(x, y))

FSub(x, y) == Round(RatSub(x, y))

FMul(x, y) == Round(RatMul(x, y))

FDiv(x, y) == Round(RatDiv(x, y))

\* The float a decimal literal such as 0.01 denotes, and the float of an int.
Dec(hundredths) == Round(Rat(hundredths, 100))

FromInt(i) == Round(<<i, 1>>)

\* Line 576: max(slope * t + start_e, end_e).
Unclamped(x, end_e) == x

FloorAt(x, end_e) == IF RatLe(end_e, x) THEN x ELSE end_e

\* Lines 574-576.
linear_schedule(start_e, end_e, duration, t) ==
    LET slope == FDiv(FSub(end_e, start_e), duration)
    IN FloorAt(FAdd(FMul(slope, FromInt(t)), start_e), end_e)

\* Lines 398-403 and 613: start_e >= end_e, and the duration is either given
\* directly or is exploration_fraction * total_timesteps.
ScheduleStarts == {Dec(100), Dec(50)}

ScheduleEnds == {Dec(1), Dec(5), Dec(10)}

ScheduleDurations ==
    {FromInt(d) : d \in (1..MaxDuration) \cup {100}}
        \cup {FMul(Dec(f), FromInt(n)) : f \in {20, 50}, n \in {4, 7}}

ScheduleInit ==
    /\ w_pc = "idle"
    /\ self = <<>>
    /\ local \in [start_e : ScheduleStarts, end_e : ScheduleEnds,
                  duration : ScheduleDurations, t : {0}]
    /\ inner = <<>>
    /\ calls = <<>>
    /\ ret = [op |-> "none", epsilon |-> <<0, 1>>]
    /\ hist = [prev |-> local.start_e]
    /\ LoopIdle

\* Line 613 at global_step = local.t; the loop variable then advances.
ScheduleCall ==
    /\ w_pc = "idle"
    /\ local.t <= MaxScheduleSteps
    /\ ret' = [op |-> "epsilon",
               epsilon |-> linear_schedule(local.start_e, local.end_e,
                                           local.duration, local.t)]
    /\ hist' = [prev |-> IF ret.op = "epsilon" THEN ret.epsilon ELSE local.start_e]
    /\ local' = [local EXCEPT !.t = @ + 1]
    /\ UNCHANGED <<w_pc, self, inner, calls>>
    /\ UNCHANGED loopVars

NextSchedule == ScheduleCall

SpecSchedule == ScheduleInit /\ [][NextSchedule]_vars

(***************************************************************************)
(* The pipeline the script assembles (lines 473-485; wrap_atari, lines     *)
(* 271-278; wrap_deepmind, lines 300-314), followed for the reward, the    *)
(* done flag and the lives of one step through its layers.  The caller is  *)
(* the loop: it steps while the last answer was not done and resets after  *)
(* a done.  The frames are followed in SpecSkip and SpecStack, the resets  *)
(* of the reset layers in SpecNoop and SpecFire.                           *)
(***************************************************************************)
\* Line 481: wrap_deepmind(env, episode_life=False, clip_rewards=True,
\* frame_stack=True, scale=False).
AssemblyArgs == [episode_life |-> FALSE, clip_rewards |-> TRUE,
                 frame_stack |-> TRUE, scale |-> FALSE]

Layer(applied, name) == IF applied THEN <<name>> ELSE <<>>

\* Lines 271-278, innermost layer first.
WrapAtari == <<"NoopResetEnv", "MaxAndSkipEnv">>

\* Lines 300-314.
WrapDeepmind(a, fire) ==
    Layer(a.episode_life, "EpisodicLifeEnv") \o Layer(fire, "FireResetEnv")
        \o <<"WarpFrame">> \o Layer(a.scale, "ScaledFloatFrame")
        \o Layer(a.clip_rewards, "ClipRewardEnv") \o <<"ImageToPyTorch">>
        \o Layer(a.frame_stack, "FrameStack")

\* Lines 473-485.
Pipeline(a, fire) == WrapAtari \o <<"RecordEpisodeStatistics">> \o WrapDeepmind(a, fire)

Has(layers, name) == \E i \in 1..Len(layers) : layers[i] = name

\* Layer x is applied over layer y.
Wraps(layers, x, y) ==
    \E i, j \in 1..Len(layers) : i < j /\ layers[i] = y /\ layers[j] = x

\* Line 138: np.sign(reward).
Unclipped(r) == r

Sign(r) == IF r > 0 THEN 1 ELSE IF r < 0 THEN -1 ELSE 0

\* The reward MaxAndSkipEnv adds up at a tick, and the reward the caller
\* gets for the sum, by where ClipRewardEnv sits.
TickReward(layers, r) ==
    IF Wraps(layers, "MaxAndSkipEnv", "ClipRewardEnv") THEN Sign(r) ELSE r

StepReward(layers, total) ==
    IF Wraps(layers, "ClipRewardEnv", "MaxAndSkipEnv") THEN Sign(total) ELSE total

\* Lines 79-84 in the pipeline: the done flag the caller gets.
StepDone(layers, d, lives, remembered) ==
    IF Has(layers, "EpisodicLifeEnv") THEN d \/ LifeLost(lives, remembered) ELSE d

PipeRewards == {-1, 0, 3}

PipeNoLocals == [i |-> 0, total_reward |-> 0, done |-> FALSE, caller |-> "none"]

PipeNoReturn == [op |-> "none", reward |-> 0, done |-> FALSE]

PipeNoHistory == [lives_before |-> 0, raw_sum |-> 0, sign_sum |-> 0]

PipeInit ==
    /\ w_pc = "idle"
    /\ \E a \in {AssemblyArgs} \cup [episode_life : BOOLEAN, clip_rewards : BOOLEAN,
                                     frame_stack : {TRUE}, scale : {FALSE}],
          fire \in BOOLEAN :
        self = [args |-> a, layers |-> Pipeline(a, fire), lives |-> 0,
                was_real_done |-> TRUE]
    /\ local = PipeNoLocals
    /\ inner = [status |-> "unreset", lives |-> 0]
    /\ calls = <<>>
    /\ ret = PipeNoReturn
    /\ hist = PipeNoHistory
    /\ LoopIdle

\* env.reset() (lines 596, 633).  With EpisodicLifeEnv in the pipeline and
\* the game not over, the reset is a no-op step (lines 91-96) of the layers
\* below; otherwise the emulator is reset.
PipeReset ==
    /\ w_pc = "idle"
    /\ ret.op = "none" \/ ret.done
    /\ IF Has(self.layers, "EpisodicLifeEnv") /\ ~self.was_real_done
       THEN /\ local' = [PipeNoLocals EXCEPT !.caller = "reset"]
            /\ ret' = PipeNoReturn
            /\ w_pc' = "tick"
            /\ UNCHANGED <<self, inner>>
       ELSE /\ \E l \in 1..MaxLives :
                /\ inner' = [status |-> "running", lives |-> l]
                /\ self' = [self EXCEPT !.lives =
                              IF Has(self.layers, "EpisodicLifeEnv") THEN l ELSE @]
            /\ ret' = [op |-> "reset", reward |-> 0, done |-> FALSE]
            /\ UNCHANGED <<w_pc, local>>
    /\ hist' = PipeNoHistory
    /\ UNCHANGED calls
    /\ UNCHANGED loopVars

\* env.step(action) (line 620) reaches MaxAndSkipEnv.step (lines 109-112).
PipeBegin ==
    /\ w_pc = "idle"
    /\ ret.op \in {"reset", "step"}
    /\ ~ret.done
    /\ local' = [PipeNoLocals EXCEPT !.caller = "step"]
    /\ ret' = PipeNoReturn
    /\ hist' = [PipeNoHistory EXCEPT !.lives_before = inner.lives]
    /\ w_pc' = "tick"
    /\ UNCHANGED <<self, inner, calls>>
    /\ UNCHANGED loopVars

\* Lines 113-121: one tick of the emulator.
PipeTick ==
    /\ w_pc = "tick"
    /\ \E r \in PipeRewards, d \in BOOLEAN, l \in 0..MaxLives :
        /\ inner' = [status |-> StatusAfterStep(inner.status, d), lives |-> l]
        /\ local' = [local EXCEPT !.i = IF GoesOn(@, d) THEN @ + 1 ELSE @,
                                  !.total_reward = @ + TickReward(self.layers, r),
                                  !.done = d]
        /\ hist' = [hist EXCEPT !.raw_sum = @ + r,
                                !.sign_sum = @ + (IF r > 0 THEN 1 ELSE IF r < 0 THEN -1 ELSE 0)]
        /\ w_pc' = IF GoesOn(local.i, d) THEN "tick" ELSE "pool"
    /\ UNCHANGED <<self, calls, ret>>
    /\ UNCHANGED loopVars

\* Line 126 and the step (or reset) methods of the layers above, up to the
\* caller.
PipeReturn ==
    /\ w_pc = "pool"
    /\ IF local.caller = "step"
       THEN /\ ret' = [op |-> "step",
                       reward |-> StepReward(self.layers, local.total_reward),
                       done |-> StepDone(self.layers, local.done, inner.lives, self.lives)]
            /\ self' = IF Has(self.layers, "EpisodicLifeEnv")
                       THEN [self EXCEPT !.lives = inner.lives,
                                         !.was_real_done = local.done]
                       ELSE self
       ELSE /\ ret' = [op |-> "reset", reward |-> 0, done |-> FALSE]
            /\ self' = [self EXCEPT !.lives = inner.lives]
    /\ local' = PipeNoLocals
    /\ w_pc' = "idle"
    /\ UNCHANGED <<inner, calls, hist>>
    /\ UNCHANGED loopVars

NextPipe ==
    \/ PipeReset
    \/ PipeBegin
    \/ PipeTick
    \/ PipeReturn

SpecPipe == PipeInit /\ [][NextPipe]_vars

(***************************************************************************)
(* combine_q_functions (lines 549-562).  A tensor is its shape and its     *)
(* elements in row-major order; an element is an exact fraction.           *)
(***************************************************************************)
BatchSizes == {1, 2}

ActionCounts == {1, 2}

HeadCounts == {1, 2}

QValues == {<<0, 1>>, <<1, 1>>}

\* Lines 564-571: a column of non-negative weights that sum to one.
StochasticColumns(h) ==
    IF h = 1 THEN {<< <<1, 1>> >>}
    ELSE {<< <<1, 2>>, <<1, 2>> >>, << <<1, 4>>, <<3, 4>> >>}

Strategies == {"STOCHASTIC", "IDENTITY", "MEAN"}

Tensor(shape, flat) == [shape |-> shape, flat |-> flat]

NoTensor == Tensor(<<0>>, <<>>)

Front(s) == SubSeq(s, 1, Len(s) - 1)

LastDim(t) == t.shape[Len(t.shape)]

\* The i-th run of elements along the last axis.
Group(t, i) == SubSeq(t.flat, (i - 1) * LastDim(t) + 1, i * LastDim(t))

Groups(t) == 1..(Len(t.flat) \div LastDim(t))

RECURSIVE SumSeq(_)
SumSeq(xs) == IF xs = <<>> THEN <<0, 1>> ELSE RatAdd(Head(xs), SumSeq(Tail(xs)))

HeadMean(xs) == RatDiv(SumSeq(xs), <<Len(xs), 1>>)

FirstHead(xs, w) == xs[1]

Dot(xs, w) == SumSeq([h \in 1..Len(xs) |-> RatMul(xs[h], w[h])])

\* Line 550: torch.mean(q_functions, axis=-1).
TorchMean(t) ==
    Tensor(Front(t.shape), [i \in Groups(t) |-> HeadMean(Group(t, i))])

\* Line 556: torch.matmul(q_functions, transform_matrix), the matrix having
\* one column.
Matmul(t, m) ==
    Tensor(Front(t.shape) \o <<m.shape[2]>>,
           [i \in Groups(t) |-> Dot(Group(t, i), m.flat)])

\* Line 556: .squeeze() removes every dimension of size one.
Squeeze(t) == Tensor(SelectSeq(t.shape, LAMBDA d : d # 1), t.flat)

\* Lines 549-562.
combine_q_functions(q_functions, transform_strategy, transform_matrix) ==
    LET q_values == TorchMean(q_functions)
    IN IF transform_strategy = "STOCHASTIC"
       THEN [op |-> "returned",
             q_functions |-> Squeeze(Matmul(q_functions, transform_matrix)),
             q_values |-> q_values]
       ELSE IF transform_strategy = "IDENTITY"
       THEN [op |-> "returned", q_functions |-> q_functions, q_values |-> q_values]
       ELSE [op |-> "raised", q_functions |-> NoTensor, q_values |-> NoTensor]

CombineInit ==
    /\ w_pc = "idle"
    /\ self = <<>>
    /\ \E b \in BatchSizes, a \in ActionCounts, h \in HeadCounts :
         \E flat \in [1..(b * a * h) -> QValues], w \in StochasticColumns(h),
            s \in Strategies :
           local = [q_functions |-> Tensor(<<b, a, h>>, flat),
                    transform_strategy |-> s,
                    transform_matrix |-> Tensor(<<h, 1>>, w)]
    /\ inner = <<>>
    /\ calls = <<>>
    /\ ret = [op |-> "none", q_functions |-> NoTensor, q_values |-> NoTensor]
    /\ hist = <<>>
    /\ LoopIdle

\* Line 541: the call from MultiHeadQNetwork.forward.
CombineCall ==
    /\ w_pc = "idle"
    /\ ret.op = "none"
    /\ ret' = combine_q_functions(local.q_functions, local.transform_strategy,
                                  local.transform_matrix)
    /\ UNCHANGED <<w_pc, self, local, inner, calls, hist>>
    /\ UNCHANGED loopVars

NextCombine == CombineCall

SpecCombine == CombineInit /\ [][NextCombine]_vars

(***************************************************************************)
(* The replay store on its own: any sequence of insertions and samplings.  *)
(* The n-th insertion stores a transition numbered n.                     *)
(***************************************************************************)
MaxInserts == 5

ReplayInit ==
    /\ w_pc = "idle"
    /\ \E c \in 1..(MaxCapacity + 1) : self = ReplayStore(c)
    /\ local = <<>>
    /\ inner = <<>>
    /\ calls = <<>>
    /\ ret = [op |-> "none", index |-> 0, size |-> 0]
    /\ hist = [inserted |-> 0]
    /\ LoopIdle

\* rb.add (line 627).
ReplayInsert ==
    /\ w_pc = "idle"
    /\ hist.inserted < MaxInserts
    /\ \E d \in BOOLEAN : self' = ReplayAdd(self, [n |-> hist.inserted, done |-> d])
    /\ hist' = [inserted |-> hist.inserted + 1]
    /\ ret' = [op |-> "add", index |-> 0, size |-> 0]
    /\ UNCHANGED <<w_pc, local, inner, calls>>
    /\ UNCHANGED loopVars

\* rb.sample (line 642): one of the indices of the batch; sampling the empty
\* store fails.
ReplayDraw ==
    /\ w_pc = "idle"
    /\ IF ReplayIndexes(self) = {}
       THEN ret' = [op |-> "raised", index |-> 0, size |-> 0]
       ELSE \E i \in ReplayIndexes(self) :
              ret' = [op |-> "sample", index |-> i, size |-> ReplaySize(self)]
    /\ UNCHANGED <<w_pc, self, local, inner, calls, hist>>
    /\ UNCHANGED loopVars

NextReplay ==
    \/ ReplayInsert
    \/ ReplayDraw

SpecReplay == ReplayInit /\ [][NextReplay]_vars

(***************************************************************************)
(* Claims about the training loop, checked under SpecLoop.                 *)
(***************************************************************************)
Finished(g) == g < global_step \/ (g = global_step /\ pc = "next")

IterationsSeen == 0..global_step

\* C1 (as stated): with total_timesteps=50, learning_start=10 and
\* train_frequency=5 the run makes exactly 8 learning steps, at 10, 15, ...,
\* 45: a learning step runs at step g exactly when g is a multiple of
\* train_frequency and g >= learning_start.
C1_EightLearningSteps ==
    args = Scenario =>
      /\ \A g \in IterationsSeen :
           Finished(g) =>
             (g \in learnSteps <=>
                (g % args.train_frequency = 0 /\ g >= args.learning_start))
      /\ pc = "exit" =>
           /\ learnSteps = {10, 15, 20, 25, 30, 35, 40, 45}
           /\ Cardinality(learnSteps) = 8

\* C1 (amended): a learning step runs at step g exactly when g is a multiple
\* of train_frequency and g > learning_start; the scenario run makes exactly
\* 7 learning steps, at 15, 20, ..., 45.
C1_LearningSteps ==
    /\ \A g \in IterationsSeen :
         Finished(g) =>
           (g \in learnSteps <=>
              (g % args.train_frequency = 0 /\ g > args.learning_start))
    /\ (pc = "exit" /\ args = Scenario) =>
         /\ learnSteps = {15, 20, 25, 30, 35, 40, 45}
         /\ Cardinality(learnSteps) = 7

C1_Witness ==
    /\ pc = "exit"
    /\ args = Scenario
    /\ Cardinality(learnSteps) = 7

\* C2: the target network is synchronized at step g exactly when g is past
\* the learning gate and a multiple of target_network_frequency, whatever
\* train_frequency is, and right after a synchronization target == online.
C2_SyncEveryTargetFrequency ==
    /\ \A g \in IterationsSeen :
         Finished(g) =>
           (g \in syncSteps <=>
              (g > args.learning_start /\ g % args.target_network_frequency = 0))
    /\ (pc = "next" /\ global_step \in syncSteps) => target_params = q_params

\* C3: the weights are regenerated exactly once at each learning step, before
\* the batch is evaluated, and whenever a network is evaluated (line 610,
\* lines 653-656) both networks hold the same transform_matrix.
C3_SharedWeights ==
    /\ pc \in {"act", "eval"} => q_tm = target_tm
    /\ pc = "eval" => (iter.regens = 1 /\ q_tm = tm_count - 1)
    /\ pc = "next" => iter.regens = (IF global_step \in learnSteps THEN 1 ELSE 0)
    /\ tm_count = 1 + Cardinality(learnSteps)

C3_Witness ==
    /\ pc = "eval"
    /\ Cardinality(learnSteps) = 2
    /\ q_tm = 2

\* C4: the loop ends after exactly total_timesteps iterations however many
\* episodes end; every iteration makes one pipeline step and one rb.add, a
\* done is followed by exactly one reset before the next step, the counter
\* keeps growing across episode ends, and the pipeline is never stepped
\* while it is done.
C4_LoopRunsBudget ==
    /\ ~misuse
    /\ global_step <= args.total_timesteps
    /\ pc = "exit" => /\ global_step = args.total_timesteps
                      /\ iter.total_steps = args.total_timesteps
                      /\ rb_size = args.total_timesteps
    /\ pc = "next" => /\ iter.steps = 1
                      /\ iter.adds = 1
                      /\ iter.resets = (IF done THEN 1 ELSE 0)
                      /\ iter.total_steps = global_step + 1
                      /\ rb_size = global_step + 1
    /\ pc = "step" => env_state = "running"
    /\ pc # "exit" => ENABLED NextLoop

C4_Witness ==
    /\ pc = "exit"
    /\ iter.total_resets = 3
    /\ iter.last_done

(***************************************************************************)
(* Claims about EpisodicLifeEnv, checked under SpecLife.                   *)
(***************************************************************************)
\* The ticks of the scripted sequence at which lives decrease (3->2, 2->1)
\* or the episode truly ends (1->0).
ScriptDoneTicks == {3, 5, 6}

\* C5: step reports done exactly when the inner environment reports done or
\* the life counter is strictly below the one remembered from the previous
\* step/reset and still above 0; on the scripted sequence done is reported
\* exactly at 3->2, 2->1 and 1->0; a bonus life never reports done.
C5_LifeLossIsDone ==
    ret.op = "step" =>
      /\ ret.done <=> (calls[1].done \/
                         (calls[1].lives < hist.prev_lives /\ calls[1].lives > 0))
      /\ (calls[1].lives > hist.prev_lives /\ ~calls[1].done) => ~ret.done
      /\ hist.tick # 0 => (ret.done <=> hist.tick \in ScriptDoneTicks)

C5_Witness ==
    /\ ret.op = "step"
    /\ hist.tick = 5
    /\ ret.done
    /\ ~calls[1].done

\* C6: reset really resets the inner environment iff the most recent inner
\* step reported true termination or no inner step has happened yet;
\* otherwise it makes exactly one inner step with action 0 and no inner
\* reset; either way self.lives is the emulator's life counter on return.
C6_RealResetIffTerminated ==
    ret.op = "reset" =>
      /\ Len(calls) = 1
      /\ calls[1].op = "reset" <=> hist.prior_done \in {"none", "true"}
      /\ calls[1].op # "reset" => (calls[1].op = "step" /\ calls[1].action = 0)
      /\ self.lives = inner.lives

(***************************************************************************)
(* Claims about MaxAndSkipEnv, checked under SpecSkip.                     *)
(***************************************************************************)
SkipReturned == w_pc = "idle" /\ ret.op = "step"

ElementwiseMax(f, g) == <<IF f[1] > g[1] THEN f[1] ELSE g[1],
                          IF f[2] > g[2] THEN f[2] ELSE g[2]>>

\* C7: a step in which no tick reports done steps the inner environment
\* exactly skip times with the same action, returns the sum of the per-tick
\* rewards and the element-wise maximum of the raw frames of ticks skip-2
\* and skip-1.
C7_RepeatSumMax ==
    (SkipReturned /\ hist.dones = 0) =>
      /\ hist.n = Skip
      /\ hist.acts = {ret.action}
      /\ ret.reward = RewardSum(hist.rewards)
      /\ ret.obs = ElementwiseMax(hist.last2[1], hist.last2[2])
      /\ ~ret.done

C7_Witness ==
    /\ SkipReturned
    /\ hist.dones = 0
    /\ hist.last2 = <<<<0, 1>>, <<1, 0>>>>
    /\ ret.obs = <<1, 1>>
    /\ ret.reward = 2

\* C8: when a tick reports done no further inner step is made in that call,
\* the call returns done=True with the reward summed over the ticks that
\* ran, and for a max-pool slot whose tick was not reached the frame an
\* earlier step call captured in that slot (zeros if none) stands in.
C8_EarlyDone ==
    /\ w_pc \in {"tick", "pool"} /\ hist.dones > 0 => w_pc = "pool"
    /\ (SkipReturned /\ hist.dones > 0) =>
         /\ hist.dones = 1
         /\ hist.last_done
         /\ hist.n <= Skip
         /\ ret.done
         /\ ret.reward = RewardSum(hist.rewards)
         /\ ret.obs = ElementwiseMax(SlotFrames(hist)[1], SlotFrames(hist)[2])
         /\ hist.n < Skip - 1 =>
              ret.obs = ElementwiseMax(hist.before[1], hist.before[2])

C8_Witness ==
    /\ SkipReturned
    /\ hist.dones = 1
    /\ hist.n = 1
    /\ hist.before = <<<<0, 1>>, <<1, 0>>>>
    /\ ret.obs = <<1, 1>>
    /\ ret.reward = -1

(***************************************************************************)
(* Claims about NoopResetEnv (SpecNoop) and FireResetEnv (SpecFire).       *)
(***************************************************************************)
ResetReturned == w_pc = "idle" /\ ret.op = "reset"

StepIndexes == {k \in 1..Len(calls) : calls[k].op = "step"}

\* Every step that reported done is directly followed by a reset, and every
\* reset but the opening one directly follows such a step.
ResetsFollowDones ==
    /\ Len(calls) >= 1
    /\ calls[1].op = "reset"
    /\ \A k \in 1..Len(calls) :
         /\ (calls[k].op = "step" /\ calls[k].done) =>
              (k < Len(calls) /\ calls[k + 1].op = "reset")
         /\ (calls[k].op = "reset" /\ k > 1) =>
              (calls[k - 1].op = "step" /\ calls[k - 1].done)

\* C9: reset resets the inner environment, then makes exactly n inner steps
\* with action 0, n drawn from 1..noop_max or the override; a step that
\* reports done is followed by another inner reset and the no-ops go on; on
\* return the inner environment is not done and the returned observation is
\* the inner environment's latest; an environment whose action 0 is not NOOP
\* fails the constructor's assertion.
C9_NoopReset ==
    /\ self.action0 # "NOOP" => (w_pc = "failed" /\ calls = <<>>)
    /\ ResetReturned =>
         /\ ResetsFollowDones
         /\ Cardinality(StepIndexes) = local.noops
         /\ IF hist.drawn
            THEN local.noops \in 1..self.noop_max
            ELSE local.noops = hist.override /\ local.noops >= 1
         /\ \A k \in StepIndexes : calls[k].action = 0
         /\ inner.status = "running"
         /\ ret.obs = inner.obs

C9_Witness ==
    /\ ResetReturned
    /\ hist.drawn
    /\ local.noops = 2
    /\ Len(calls) = 5
    /\ calls[Len(calls)].op = "reset"

\* C10: reset resets the inner environment, then makes exactly two inner
\* steps, action 1 and then action 2; after each, when it reported done, the
\* inner environment is reset again, so it is never done when reset returns.
C10_FireReset ==
    ResetReturned =>
      /\ ResetsFollowDones
      /\ Cardinality(StepIndexes) = 2
      /\ \A j, k \in StepIndexes : j < k => (calls[j].action = 1 /\ calls[k].action = 2)
      /\ inner.status = "running"

C10_Witness ==
    /\ ResetReturned
    /\ Len(calls) = 5
    /\ calls[2].done
    /\ calls[4].done

(***************************************************************************)
(* Claims about FrameStack, checked under SpecStack.                       *)
(***************************************************************************)
RECURSIVE Copies(_, _)
Copies(x, n) == IF n = 0 THEN <<>> ELSE <<x>> \o Copies(x, n - 1)

\* The last k of the observations received since the latest reset, the
\* reset's observation standing in for the ones that are missing.
LastReceived(log, k) ==
    LET padded == Copies(log[1], k - 1) \o log
    IN SubSeq(padded, Len(padded) - k + 1, Len(padded))

\* C11: after a reset and any steps the window holds exactly k frames;
\* right after a reset they are all the reset's observation; each step
\* appends its observation and drops the oldest; the returned observation,
\* materialised or not, is the in-order concatenation of the last k
\* observations received.
C11_FrameWindow ==
    /\ Len(self.frames) <= self.k
    /\ hist.reset_seen =>
        /\ ret.op \in {"reset", "step"}
        /\ Len(self.frames) = self.k
        /\ self.frames = LastReceived(hist.log, self.k)
        /\ ret.op = "reset" =>
              \A i \in 1..self.k : self.frames[i] = hist.log[1]
        /\ Force(ret.ob).out = Concatenate(LastReceived(hist.log, self.k))
        /\ Len(Force(ret.ob).out) = self.k

C11_Witness ==
    /\ hist.reset_seen
    /\ ret.op = "step"
    /\ Len(hist.log) > self.k
    /\ ret.ob.out # NoArray
    /\ ret.ob.out[1] # ret.ob.out[2]
    /\ ret.ob.out[1] # hist.log[1][1]

(***************************************************************************)
(* Claims about linear_schedule, checked under SpecSchedule.               *)
(***************************************************************************)
\* The step the last call was made for.
ScheduleT == local.t - 1

\* start_e + (end_e - start_e) * t / duration up to t = duration, end_e from
\* there on, in exact arithmetic.
ExactSchedule(start_e, end_e, duration, t) ==
    IF RatLe(<<t, 1>>, duration)
    THEN RatAdd(start_e, RatMul(RatSub(end_e, start_e), RatDiv(<<t, 1>>, duration)))
    ELSE end_e

\* Eight units in the last place of start_e.
ScheduleTolerance == RatMul(local.start_e, <<8, Pow2(MantissaBits)>>)

\* C12 as stated, its part from the duration on: for t >= duration the
\* schedule returns exactly end_e.
C12_EndValueFromDuration ==
    (ret.op = "epsilon" /\ RatLe(local.duration, <<ScheduleT, 1>>))
        => ret.epsilon = local.end_e

\* C12, amended: the value is start_e at t = 0, never rises from one step to
\* the next, stays within [end_e, start_e], and is the exact value
\* (linear down to end_e at t = duration, end_e after) up to rounding.
C12_Schedule ==
    ret.op = "epsilon" =>
        /\ ScheduleT = 0 => ret.epsilon = local.start_e
        /\ RatLe(local.end_e, ret.epsilon)
        /\ RatLe(ret.epsilon, local.start_e)
        /\ RatLe(ret.epsilon, hist.prev)
        /\ RatLe(RatAbs(RatSub(ret.epsilon,
                               ExactSchedule(local.start_e, local.end_e,
                                             local.duration, ScheduleT))),
                 ScheduleTolerance)
        /\ (local.start_e = Dec(100) /\ local.end_e = Dec(1)
              /\ local.duration = FromInt(100) /\ ScheduleT = 200)
             => ret.epsilon = Dec(1)

C12_Witness ==
    /\ ret.op = "epsilon"
    /\ local.start_e = Dec(100)
    /\ local.end_e = Dec(1)
    /\ local.duration = FromInt(100)
    /\ ScheduleT = 100
    /\ ret.epsilon # local.end_e
    /\ ret.epsilon # hist.prev

(***************************************************************************)
(* Claims about checkpoints, replay insertion and preconditions in the     *)
(* training loop, checked under SpecLoop.                                  *)
(***************************************************************************)
\* The loop is past the save block of iteration g.
SaveDecided(g) ==
    g < global_step \/ (g = global_step /\ pc \notin {"reset", "head", "save", "exit"})

SetMax(S) == CHOOSE x \in S : \A y \in S : y <= x

\* The parameter versions as they are after all updates of the steps before g.
OnlineBefore(g) == Cardinality({h \in learnSteps : h < g})

TargetBefore(g) ==
    LET synced == {h \in syncSteps : h < g}
    IN IF synced = {} THEN 0
       ELSE Cardinality({h \in learnSteps : h <= SetMax(synced)})

\* C13: a checkpoint is written at every step g that is a multiple of
\* save_frequency (step 0 included) and at no other step; it records
\* global_step = g with the online parameters, the target parameters and the
\* optimizer state as they are after all updates of the steps before g.
C13_Checkpoints ==
    /\ \A g \in IterationsSeen :
         SaveDecided(g) => (g \in saveSteps <=> g % args.save_frequency = 0)
    /\ checkpoint.saved <=> saveSteps # {}
    /\ checkpoint.saved =>
         /\ checkpoint.global_step = SetMax(saveSteps)
         /\ checkpoint.q = OnlineBefore(checkpoint.global_step)
         /\ checkpoint.optimizer = OnlineBefore(checkpoint.global_step)
         /\ checkpoint.target = TargetBefore(checkpoint.global_step)

C13_Witness ==
    /\ pc = "exit"
    /\ Cardinality(saveSteps) >= 2
    /\ checkpoint.global_step > 0
    /\ checkpoint.q >= 2
    /\ checkpoint.target >= 1
    /\ checkpoint.target < checkpoint.q

\* C19: the loop never violates a precondition: whenever it samples, the
\* replay store holds at least one transition, whatever learning_start >= 0
\* and train_frequency >= 1 are; the pipeline is reset before its first
\* step, so the frame window holds k frames whenever it is read; stepping
\* the FrameStack before any reset fails its length assertion.
C19_Preconditions ==
    /\ pc # "crash"
    /\ pc = "eval" => ReplaySize(rb) >= 1
    /\ pc = "reset" => /\ iter.total_steps = 0
                       /\ Len(self.frames) < self.k
                       /\ PipelineStep.got.op = "raised"
    /\ pc # "reset" => /\ iter.total_resets >= 1
                       /\ Len(self.frames) = self.k
                       /\ PipelineStep.got.op = "ok"

C19_Witness ==
    /\ pc = "eval"
    /\ args.learning_start = 0
    /\ args.buffer_size = 1
    /\ global_step = 2
    /\ ReplaySize(rb) = 1

\* C20: no stored transition crosses an episode boundary: the
\* next_observation handed to rb.add is the observation the step returned
\* (on a done step the terminal one, never the reset's), and the observation
\* of the transition inserted right after a done step (and of the first
\* one) is the observation the reset returned.
C20_NoCrossEpisode ==
    /\ pc = "episode" =>
         /\ trace.added.next_obs = Force(trace.step_ob).out
         /\ trace.added.done = done
         /\ (trace.follows_done \/ global_step = 0) =>
               trace.added.obs = Force(trace.reset_ob).out
    /\ (pc = "gate" /\ done) =>
         /\ Force(obs).out = Force(trace.reset_ob).out
         /\ trace.added.next_obs # Force(obs).out
         /\ trace.added.next_obs = Force(trace.step_ob).out

C20_Witness ==
    /\ pc = "episode"
    /\ trace.follows_done
    /\ done
    /\ global_step = 2
    /\ trace.added.obs # trace.added.next_obs

(***************************************************************************)
(* Claims about the assembled pipeline, checked under SpecPipe.            *)
(***************************************************************************)
\* C14: the reward the loop gets from the assembled pipeline is -1, 0 or 1,
\* the sign of the reward the action-repeat layer returned for the step:
\* the sign of the summed per-tick rewards, not the sum of their signs.
C14_ClippedReward ==
    (ret.op = "step" /\ self.args = AssemblyArgs) =>
        /\ ret.reward \in {-1, 0, 1}
        /\ hist.raw_sum > 0 => ret.reward = 1
        /\ hist.raw_sum = 0 => ret.reward = 0
        /\ hist.raw_sum < 0 => ret.reward = -1

C14_Witness ==
    /\ ret.op = "step"
    /\ self.args = AssemblyArgs
    /\ hist.raw_sum > 0
    /\ hist.sign_sum < 0
    /\ ret.reward = 1

\* C15: in the pipeline the script assembles, a step on which the lives
\* strictly decrease but stay above zero is reported to the loop as done.
C15_LifeLossEndsEpisode ==
    (ret.op = "step" /\ self.args = AssemblyArgs
        /\ inner.lives < hist.lives_before /\ inner.lives > 0)
      => ret.done

(***************************************************************************)
(* Claims about combine_q_functions, checked under SpecCombine.            *)
(***************************************************************************)
\* The element of tensor t at batch index b and action index a, the head
\* index h running along the last axis.
HeadValue(t, b, a, h) == t.flat[((b - 1) * t.shape[2] + (a - 1)) * t.shape[3] + h]

\* C16: for every valid strategy the second output is the per-action mean
\* over the heads; under IDENTITY the first output is the head values
\* unchanged, under STOCHASTIC it is their weights-projected combination,
\* element by element; any other strategy name raises and returns nothing.
C16_CombineOutputs ==
    ret.op # "none" =>
      LET q == local.q_functions
          w == local.transform_matrix.flat
          B == q.shape[1]
          A == q.shape[2]
          H == q.shape[3]
          valid == local.transform_strategy \in {"STOCHASTIC", "IDENTITY"}
      IN /\ ret.op = (IF valid THEN "returned" ELSE "raised")
         /\ ~valid => (ret.q_functions = NoTensor /\ ret.q_values = NoTensor)
         /\ valid =>
              /\ ret.q_values.shape = <<B, A>>
              /\ \A b \in 1..B, a \in 1..A :
                   RatMul(ret.q_values.flat[(b - 1) * A + a], <<H, 1>>)
                     = SumSeq([h \in 1..H |-> HeadValue(q, b, a, h)])
         /\ local.transform_strategy = "IDENTITY" => ret.q_functions = q
         /\ local.transform_strategy = "STOCHASTIC" =>
              /\ Len(ret.q_functions.flat) = B * A
              /\ \A b \in 1..B, a \in 1..A :
                   ret.q_functions.flat[(b - 1) * A + a]
                     = SumSeq([h \in 1..H |-> RatMul(w[h], HeadValue(q, b, a, h))])

C16_Witness ==
    /\ ret.op = "returned"
    /\ local.transform_strategy = "STOCHASTIC"
    /\ local.q_functions.shape = <<2, 2, 2>>
    /\ ret.q_functions.flat[1] = <<3, 4>>
    /\ ret.q_values.flat[1] = <<1, 2>>

\* C18: under STOCHASTIC the projected output has shape [B, A] for every
\* B >= 1 and A >= 1, B = 1 and A = 1 included.
C18_ProjectedShape ==
    (ret.op = "returned" /\ local.transform_strategy = "STOCHASTIC") =>
        ret.q_functions.shape = <<local.q_functions.shape[1], local.q_functions.shape[2]>>

(***************************************************************************)
(* Claims about the replay store, checked under SpecReplay.                *)
(***************************************************************************)
Smaller(a, b) == IF a < b THEN a ELSE b

StoredTransitions == {self.slots[i].n : i \in 1..Len(self.slots)}

\* C17: the store never holds more than its capacity C; it holds the latest
\* C insertions (all of them while fewer were made), so after C + 1
\* insertions its size is C and the oldest transition has been overwritten;
\* every sampled index is below the size at the time of sampling.
C17_ReplayBounded ==
    /\ ReplaySize(self) <= self.capacity
    /\ ReplaySize(self) = Smaller(hist.inserted, self.capacity)
    /\ StoredTransitions = {n \in 0..(hist.inserted - 1) : n >= hist.inserted - self.capacity}
    /\ ret.op = "sample" => (0 <= ret.index /\ ret.index < ret.size)
    /\ ret.op = "sample" => ret.size = ReplaySize(self)
    /\ ret.op = "raised" => ReplaySize(self) = 0

C17_Witness ==
    /\ hist.inserted = self.capacity + 1
    /\ self.capacity >= 2
    /\ ReplaySize(self) = self.capacity
    /\ 0 \notin StoredTransitions
    /\ self.slots[1].n = self.capacity
    /\ ret.op = "sample"
    /\ ret.index = self.capacity - 1


C22_NeverSteppedTerminated ==
    (hist.caller_ok /\ calls # <<>> /\ calls[1].op = "step") =>
      hist.prior_status # "done"

(***************************************************************************)
(* Claims about the observation FireResetEnv.reset hands back              *)
(***************************************************************************)
\* C23: the observation reset returns is the most recent observation the
\* inner environment produced: that of the last inner step or, when a reset
\* followed it, that of this reset; never one of an episode reset away.
C23_ReturnsLatestObservation ==
    ResetReturned => ret.obs = inner.obs

(***************************************************************************)
(* Claims about the checkpoint a finished run leaves behind                *)
(***************************************************************************)
\* C24: when the loop has used up its total_timesteps budget, the checkpoint
\* persisted last holds the online network parameters as they are after the
\* final learning update, for every save_frequency and total_timesteps.
C24_FinalCheckpointIsTrainedModel ==
    pc = "exit" => (checkpoint.saved /\ checkpoint.q = q_params)

====
